---- MODULE Spec2Model ----
(***************************************************************************)
(* TimedQueue (src/src/lib.rs): a BinaryHeap of Item behind a Mutex, plus  *)
(* a tokio Notify.  Threads call enqueue and dequeue concurrently; time is *)
(* a discrete clock.                                                       *)
(*                                                                         *)
(* Option<X> is written as a sequence: <<>> is None, <<x>> is Some(x).     *)
(***************************************************************************)
EXTENDS Integers, Sequences, FiniteSets, Bags, TLC

\* ---------------------------------------------------------------- bounds
NumConsumers == 2
NumProducers == 1
MaxPayload == 2
MaxRelease == 1
MaxEnq == 3

\* Consumer threads call dequeue and may enqueue again what they got;
\* producer threads call enqueue.
Consumers == 1..NumConsumers
Producers == (NumConsumers + 1)..(NumConsumers + NumProducers)
Threads == Consumers \cup Producers
Payloads == 1..MaxPayload
\* The clock saturates at MaxTime, which stands for "later than every release
\* time": every comparison and subtraction of the code is exact below it.
MaxTime == MaxRelease + 1
Instants == 0..MaxRelease
OptInstants == {<<>>} \cup {<<i>> : i \in Instants}
Items == [expiration : OptInstants, inner : Payloads]

VARIABLES
    now,        \* the clock, Instant::now()
    storage,    \* SharedInner.storage: the heap, greatest Item first
    lock,       \* the Mutex around storage: 0, or the thread holding it
    permit,     \* Notify: a stored notification (no waiter was there to take it)
    waiters,    \* Notify: the suspended notified() futures, oldest first
    pc,         \* per thread: where it is in enqueue / dequeue
    arg,        \* per thread: the Item an enqueue call is inserting
    nowc,       \* per thread: peek_inner's local `now`
    wait,       \* per thread: Err(duration) of peek_inner, then the running timer
    got,        \* per thread: the entry its last dequeue call returned
    consumers,  \* the threads that call dequeue
    enqueued,   \* history: bag of every Item pushed
    returned    \* history: the entries returned by dequeue, in order

vars == <<now, storage, lock, permit, waiters, pc, arg, nowc, wait, got,
          consumers, enqueued, returned>>

\* ------------------------------------------------------ Item and its order
\* Option<Instant>: None < Some(_), Some(a) < Some(b) iff a < b.
OptionLess(a, b) ==
    \/ a = <<>> /\ b # <<>>
    \/ a # <<>> /\ b # <<>> /\ a[1] < b[1]

ReverseLessNoReverse(a, b) == OptionLess(a, b)

\* Reverse<Option<Instant>>: the order of Option<Instant>, reversed.
ReverseLess(a, b) == OptionLess(b, a)

\* #[derive(Ord)] on Item: lexicographic, expiration (Reverse) then inner.
ItemLess(a, b) ==
    \/ ReverseLess(a.expiration, b.expiration)
    \/ a.expiration = b.expiration /\ a.inner < b.inner

\* ------------------------------------------------------------- BinaryHeap
\* A max-heap, kept as the sequence of its elements, greatest first.
HeapPushBack(h, x) == Append(h, x)

RECURSIVE HeapPush(_, _)
HeapPush(h, x) ==
    IF h = <<>> THEN <<x>>
    ELSE IF ItemLess(Head(h), x) THEN <<x>> \o h
    ELSE <<Head(h)>> \o HeapPush(Tail(h), x)

HeapPeek(h) == IF h = <<>> THEN <<>> ELSE <<Head(h)>>

HeapPopKeep(h) == h

HeapPop(h) == Tail(h)

\* ------------------------------------------------------------- peek_inner
\* The match of peek_inner: <<ready, duration>> for the heap's top and `now`.
ReadyAlways(top, n) == <<top # <<>>, <<>>>>

ReadyFlipped(top, n) ==
    IF top # <<>> /\ top[1].expiration # <<>>
    THEN IF n < top[1].expiration[1]
         THEN <<TRUE, <<>>>>
         ELSE <<FALSE, <<0>>>>
    ELSE IF top # <<>>
    THEN <<TRUE, <<>>>>
    ELSE <<FALSE, <<>>>>

ReadyNoBound(top, n) ==
    IF top # <<>> /\ top[1].expiration # <<>>
    THEN IF top[1].expiration[1] < n
         THEN <<TRUE, <<>>>>
         ELSE <<FALSE, <<>>>>
    ELSE IF top # <<>>
    THEN <<TRUE, <<>>>>
    ELSE <<FALSE, <<>>>>

ReadyZeroWait(top, n) ==
    IF top # <<>> /\ top[1].expiration # <<>>
    THEN IF top[1].expiration[1] < n
         THEN <<TRUE, <<>>>>
         ELSE <<FALSE, <<0>>>>
    ELSE IF top # <<>>
    THEN <<TRUE, <<>>>>
    ELSE <<FALSE, <<>>>>

ReadyNoneWaits(top, n) ==
    IF top = <<>> \/ top[1].expiration = <<>> THEN <<FALSE, <<>>>>
    ELSE IF top[1].expiration[1] < n THEN <<TRUE, <<>>>>
    ELSE <<FALSE, <<top[1].expiration[1] - n>>>>

ReadyDuration(top, n) ==
    IF top # <<>> /\ top[1].expiration # <<>>
    THEN IF top[1].expiration[1] < n
         THEN <<TRUE, <<>>>>
         ELSE <<FALSE, <<top[1].expiration[1] - n>>>>
    ELSE IF top # <<>>
    THEN <<TRUE, <<>>>>
    ELSE <<FALSE, <<>>>>

\* ---------------------------------------------------------------- helpers
RECURSIVE SeqBag(_)
SeqBag(s) == IF s = <<>> THEN EmptyBag ELSE SetToBag({Head(s)}) (+) SeqBag(Tail(s))

Remove(s, t) == SelectSeq(s, LAMBDA x : x # t)

Entry(r) == [expiration |-> r.expiration, inner |-> r.inner]

RECURSIVE Entries(_)
Entries(s) == IF s = <<>> THEN <<>> ELSE <<Entry(Head(s))>> \o Entries(Tail(s))

NumEnqueued == BagCardinality(enqueued)

\* ------------------------------------------------------------------- Init
InitWith(cs) ==
    /\ now = 0
    /\ storage = <<>>
    /\ lock = 0
    /\ permit = FALSE
    /\ waiters = <<>>
    /\ pc = [t \in Threads |-> "idle"]
    /\ arg = [t \in Threads |-> <<>>]
    /\ nowc = [t \in Threads |-> 0]
    /\ wait = [t \in Threads |-> <<>>]
    /\ got = [t \in Threads |-> <<>>]
    /\ consumers = cs
    /\ enqueued = EmptyBag
    /\ returned = <<>>

Init == InitWith(Consumers)

\* --------------------------------------------------------------- the clock
\* Time passes: the clock advances and every running timeout gets closer.
Tick ==
    /\ now' = IF now < MaxTime THEN now + 1 ELSE now
    /\ wait' = [t \in Threads |->
                  IF pc[t] = "waiting" /\ wait[t] # <<>> /\ wait[t][1] > 0
                  THEN <<wait[t][1] - 1>> ELSE wait[t]]
    /\ UNCHANGED <<storage, lock, permit, waiters, pc, arg, nowc, got,
                   consumers, enqueued, returned>>

\* ---------------------------------------------------------------- enqueue
\* enqueue(t, expiration): storage.lock() is the call's first effect.
EnqueueCall(t, item) ==
    /\ pc[t] = "idle"
    /\ lock = 0
    /\ NumEnqueued < MaxEnq
    /\ lock' = t
    /\ arg' = [arg EXCEPT ![t] = <<item>>]
    /\ got' = [got EXCEPT ![t] = <<>>]
    /\ pc' = [pc EXCEPT ![t] = "e_locked"]
    /\ UNCHANGED <<now, storage, permit, waiters, nowc, wait, consumers,
                   enqueued, returned>>

\* The retry of the crate's example: the entry a dequeue call returned is
\* enqueued again with Some(Instant::now() + delay).
Retry(t, d) ==
    /\ got[t] # <<>>
    /\ now + d \in Instants
    /\ EnqueueCall(t, [expiration |-> <<now + d>>, inner |-> got[t][1].inner])

\* .push(Item { .. }); the guard is dropped at the end of the statement.
Push(t) ==
    /\ pc[t] = "e_locked"
    /\ storage' = HeapPush(storage, arg[t][1])
    /\ enqueued' = enqueued (+) SetToBag({arg[t][1]})
    /\ lock' = 0
    /\ arg' = [arg EXCEPT ![t] = <<>>]
    /\ pc' = [pc EXCEPT ![t] = "e_notify"]
    /\ UNCHANGED <<now, permit, waiters, nowc, wait, got, consumers, returned>>

\* Notify::notify_one: the oldest waiter is notified; with no waiter the
\* notification is stored as the (single) permit.
NotifyLockedLost == <<waiters, permit, {}>>

NotifyLockedPermitOnly == <<waiters, TRUE, {}>>

NotifyLockedNoPermit ==
    IF waiters # <<>>
    THEN <<Tail(waiters), permit, {Head(waiters)}>>
    ELSE <<waiters, permit, {}>>

NotifyLockedAll == <<(<<>>), permit, {waiters[i] : i \in 1..Len(waiters)}>>

NotifyLocked ==
    IF waiters # <<>>
    THEN <<Tail(waiters), permit, {Head(waiters)}>>
    ELSE <<waiters, TRUE, {}>>

NotifyOne(t) ==
    /\ pc[t] = "e_notify"
    /\ LET r == NotifyLocked IN
       /\ waiters' = r[1]
       /\ permit' = r[2]
       /\ pc' = [u \in Threads |->
                   IF u = t THEN "idle" ELSE IF u \in r[3] THEN "woken" ELSE pc[u]]
       /\ wait' = [u \in Threads |-> IF u \in r[3] THEN <<>> ELSE wait[u]]
    /\ UNCHANGED <<now, storage, lock, arg, nowc, got, consumers, enqueued,
                   returned>>

\* ---------------------------------------------------------------- dequeue
\* The top of dequeue's loop: peek_inner reads the clock, then asks for the lock.
LoopTopNoRecheck(t) ==
    /\ nowc' = nowc
    /\ pc' = [pc EXCEPT ![t] = "d_wait"]

LoopTop(t) ==
    /\ nowc' = [nowc EXCEPT ![t] = now]
    /\ pc' = [pc EXCEPT ![t] = "d_lock"]

DequeueCall(t) ==
    /\ pc[t] = "idle"
    /\ t \in consumers
    /\ LoopTop(t)
    /\ got' = [got EXCEPT ![t] = <<>>]
    /\ UNCHANGED <<now, storage, lock, permit, waiters, arg, wait, consumers,
                   enqueued, returned>>

Lock(t) ==
    /\ pc[t] = "d_lock"
    /\ lock = 0
    /\ lock' = t
    /\ pc' = [pc EXCEPT ![t] = "d_locked"]
    /\ UNCHANGED <<now, storage, permit, waiters, arg, nowc, wait, got,
                   consumers, enqueued, returned>>

\* peek_inner under the lock: Ok(entry) pops and returns, Err(duration) goes
\* on to wait.  The lock is released when peek_inner returns.
GuardKeptWhileWaiting(t, ready) == IF ready THEN 0 ELSE t

\* The MutexGuard `lock` is a local of peek_inner: it is dropped, and the Mutex
\* released, when peek_inner returns, ready or not.
GuardDropped(t, ready) == 0

PeekInnerPopThenWait(t) ==
    /\ pc[t] = "d_locked"
    /\ lock' = 0
    /\ LET rd == ReadyDuration(HeapPeek(storage), nowc[t]) IN
       IF rd[1]
       THEN /\ storage' = HeapPop(storage)
            /\ got' = [got EXCEPT ![t] = HeapPeek(storage)]
            /\ returned' = Append(returned,
                   [expiration |-> Head(storage).expiration,
                    inner |-> Head(storage).inner,
                    enq |-> NumEnqueued])
            /\ pc' = [pc EXCEPT ![t] = "idle"]
            /\ UNCHANGED wait
       ELSE /\ storage' = IF storage = <<>> THEN storage ELSE Tail(storage)
            /\ wait' = [wait EXCEPT ![t] = rd[2]]
            /\ pc' = [pc EXCEPT ![t] = "d_wait"]
            /\ UNCHANGED <<got, returned>>
    /\ nowc' = [nowc EXCEPT ![t] = 0]
    /\ UNCHANGED <<now, permit, waiters, arg, consumers, enqueued>>

PeekInner(t) ==
    /\ pc[t] = "d_locked"
    /\ lock' = GuardDropped(t, ReadyDuration(HeapPeek(storage), nowc[t])[1])
    /\ LET rd == ReadyDuration(HeapPeek(storage), nowc[t]) IN
       IF rd[1]
       THEN /\ storage' = HeapPop(storage)
            /\ got' = [got EXCEPT ![t] = HeapPeek(storage)]
            /\ returned' = Append(returned,
                   [expiration |-> Head(storage).expiration,
                    inner |-> Head(storage).inner,
                    enq |-> NumEnqueued])
            /\ pc' = [pc EXCEPT ![t] = "idle"]
            /\ UNCHANGED wait
       ELSE /\ wait' = [wait EXCEPT ![t] = rd[2]]
            /\ pc' = [pc EXCEPT ![t] = "d_wait"]
            /\ UNCHANGED <<storage, got, returned>>
    /\ nowc' = [nowc EXCEPT ![t] = 0]
    /\ UNCHANGED <<now, permit, waiters, arg, consumers, enqueued>>

\* notified().await, alone or under timeout(duration, ..): a stored permit is
\* taken and the loop goes round at once; otherwise the thread suspends as the
\* newest waiter, its timer (if any) running from now.
Wait(t) ==
    /\ pc[t] = "d_wait"
    /\ IF permit
       THEN /\ permit' = FALSE
            /\ LoopTop(t)
            /\ wait' = [wait EXCEPT ![t] = <<>>]
            /\ UNCHANGED waiters
       ELSE /\ waiters' = Append(waiters, t)
            /\ pc' = [pc EXCEPT ![t] = "waiting"]
            /\ UNCHANGED <<permit, nowc, wait>>
    /\ UNCHANGED <<now, storage, lock, arg, got, consumers, enqueued, returned>>

\* The notified waiter runs again: back to the top of the loop.
Resume(t) ==
    /\ pc[t] = "woken"
    /\ LoopTop(t)
    /\ UNCHANGED <<now, storage, lock, permit, waiters, arg, wait, got,
                   consumers, enqueued, returned>>

\* timeout(..) elapsed: the notified() future is dropped (it leaves the
\* waiters) and the loop goes round.
Timeout(t) ==
    /\ pc[t] = "waiting"
    /\ wait[t] = <<0>>
    /\ waiters' = Remove(waiters, t)
    /\ wait' = [wait EXCEPT ![t] = <<>>]
    /\ LoopTop(t)
    /\ UNCHANGED <<now, storage, lock, permit, arg, got, consumers, enqueued,
                   returned>>

\* The caller drops the dequeue future at one of its two await points.  A
\* waiter leaves the list; one already notified hands its notification on.
Cancel(t) ==
    /\ pc[t] \in {"waiting", "woken"}
    /\ IF pc[t] = "waiting"
       THEN /\ waiters' = Remove(waiters, t)
            /\ pc' = [pc EXCEPT ![t] = "idle"]
            /\ wait' = [wait EXCEPT ![t] = <<>>]
            /\ UNCHANGED permit
       ELSE LET r == NotifyLocked IN
            /\ waiters' = r[1]
            /\ permit' = r[2]
            /\ pc' = [u \in Threads |->
                        IF u = t THEN "idle" ELSE IF u \in r[3] THEN "woken" ELSE pc[u]]
            /\ wait' = [u \in Threads |-> IF u \in r[3] THEN <<>> ELSE wait[u]]
    /\ UNCHANGED <<now, storage, lock, arg, nowc, got, consumers, enqueued,
                   returned>>

\* ------------------------------------------------------------ specification
Next ==
    \/ Tick
    \/ \E t \in Producers, item \in Items : EnqueueCall(t, item)
    \/ \E t \in Consumers, d \in 1..MaxRelease : Retry(t, d)
    \/ \E t \in Threads : Push(t)
    \/ \E t \in Threads : NotifyOne(t)
    \/ \E t \in Threads : DequeueCall(t)
    \/ \E t \in Threads : Lock(t)
    \/ \E t \in Threads : PeekInner(t)
    \/ \E t \in Threads : Wait(t)
    \/ \E t \in Threads : Resume(t)
    \/ \E t \in Threads : Timeout(t)
    \/ \E t \in Threads : Cancel(t)

Spec == Init /\ [][Next]_vars

\* One consumer (thread 1), never cancelled.  Every thread that can take a
\* step of a call in progress eventually takes it, and time passes.
LiveInit == InitWith({1})

NextLive ==
    \/ Tick
    \/ \E t \in Producers, item \in Items : EnqueueCall(t, item)
    \/ \E t \in Consumers, d \in 1..MaxRelease : Retry(t, d)
    \/ \E t \in Threads : Push(t)
    \/ \E t \in Threads : NotifyOne(t)
    \/ \E t \in Threads : DequeueCall(t)
    \/ \E t \in Threads : Lock(t)
    \/ \E t \in Threads : PeekInner(t)
    \/ \E t \in Threads : Wait(t)
    \/ \E t \in Threads : Resume(t)
    \/ \E t \in Threads : Timeout(t)

Fairness ==
    /\ WF_vars(Tick)
    /\ \A t \in Threads :
        /\ WF_vars(Push(t))
        /\ WF_vars(NotifyOne(t))
        /\ WF_vars(Lock(t))
        /\ WF_vars(PeekInner(t))
        /\ WF_vars(Wait(t))
        /\ WF_vars(Resume(t))
        /\ WF_vars(Timeout(t))

LiveSpec == LiveInit /\ [][NextLive]_vars /\ Fairness

\* Every consumer dequeues, no call is ever dropped by its caller, and
\* scheduling is fair as in LiveSpec.
MultiSpec == Init /\ [][NextLive]_vars /\ Fairness

TypeOK ==
    /\ now \in 0..MaxTime
    /\ lock \in {0} \cup Threads
    /\ permit \in BOOLEAN
    /\ \A i \in 1..Len(storage) : storage[i] \in Items

\* ================================================================= claims
InDequeue(t) == pc[t] \in {"d_lock", "d_locked", "d_wait", "waiting", "woken"}

\* The head of the store is ready at the true current time.
HeadReady ==
    /\ storage # <<>>
    /\ \/ Head(storage).expiration = <<>>
       \/ Head(storage).expiration[1] < now

\* Thread t's step is the return of its dequeue call with the head of the store.
ReturnsHead(t) ==
    /\ storage # <<>>
    /\ pc'[t] = "idle"
    /\ got'[t] = <<Head(storage)>>
    /\ storage' = Tail(storage)
    /\ Len(returned') = Len(returned) + 1
    /\ Entry(returned'[Len(returned')]) = Head(storage)

\* C1: entries returned by successive dequeue calls with no enqueue between
\* them (so in particular when every enqueue came first and every release time
\* has passed) come out in non-decreasing order of release time, None before
\* every Some(t).
C1_Ordering ==
    \A i, j \in 1..Len(returned) :
        (i < j /\ returned[i].enq = returned[j].enq)
            => ~OptionLess(returned[j].expiration, returned[i].expiration)

C1_Witness ==
    /\ Len(returned) = 3
    /\ \A i \in 1..3 : returned[i].enq = 3
    /\ returned[1].expiration = <<>>
    /\ returned[2].expiration = <<0>>
    /\ returned[3].expiration = <<1>>

\* C2: no entry with release time Some(t) has been returned while the clock
\* was still before t; this covers an entry enqueued again with now + delay.
C2_NoEarlyReturn ==
    \A i \in 1..Len(returned) :
        returned[i].expiration # <<>> => ~(now < returned[i].expiration[1])

\* Consumer 1 got an entry and enqueued it again with now + 1 (it has pushed
\* and not yet signalled); the entry was returned a second time, at time >= 1.
C2_Witness ==
    /\ pc[1] = "e_notify"
    /\ NumEnqueued = 2
    /\ Len(returned) = 2
    /\ returned[1].enq = 1
    /\ returned[2].enq = 2
    /\ returned[2].inner = returned[1].inner
    /\ returned[2].expiration = <<1>>
    /\ now >= 1

\* C3: a check under the lock whose head has release time Some(t) with
\* now >= t (now = t included) returns that head.
C3_ReadyAtBoundary ==
    [][\A t \in Threads :
         ( /\ pc[t] = "d_locked"
           /\ pc'[t] # "d_locked"
           /\ storage # <<>>
           /\ Head(storage).expiration # <<>>
           /\ nowc[t] >= Head(storage).expiration[1] )
         => ReturnsHead(t)]_vars

\* C4: a check under the lock whose head has release time None returns that
\* head in the same step, without going on to wait, whatever the time is.
C4_NoneReady ==
    [][\A t \in Threads :
         ( /\ pc[t] = "d_locked"
           /\ pc'[t] # "d_locked"
           /\ storage # <<>>
           /\ Head(storage).expiration = <<>> )
         => ReturnsHead(t)]_vars

\* enqueue(item, None) then dequeue() on an otherwise empty queue: returned
\* at time 0 by a call that never waited.
C4_Witness ==
    /\ now = 0
    /\ NumEnqueued = 1
    /\ storage = <<>>
    /\ Len(returned) = 1
    /\ returned[1].expiration = <<>>
    /\ got[1] = <<Entry(returned[1])>>

\* C8: a dequeue call in progress ends, other than by its caller dropping it,
\* only by returning the head of the store, and only when that head is ready;
\* every other step of the call (a wake with nothing ready included) keeps it
\* in its check/wait cycle.  Nothing is returned except by such a step.
C8_ReturnsOnlyEntry ==
    [][/\ \A t \in Threads :
            (InDequeue(t) /\ pc'[t] = "idle" /\ ~Cancel(t))
                => (HeadReady /\ ReturnsHead(t))
       /\ returned' # returned
            => \E t \in Threads : pc[t] = "d_locked" /\ HeadReady /\ ReturnsHead(t)]_vars

\* A stale signal: consumer 1 was suspended and is woken by an enqueue whose
\* entry consumer 2 has already taken, so that the store is empty again.
C8_Witness ==
    /\ pc[1] = "woken"
    /\ storage = <<>>
    /\ NumEnqueued = 1
    /\ Len(returned) = 1
    /\ got[2] # <<>>

\* C9: of two entries with the same release time that were in the store
\* together, the one with the lesser payload is returned first.
C9_TieLesserFirst ==
    \A i, j \in 1..Len(returned) :
        ( /\ i < j
          /\ returned[i].enq = returned[j].enq
          /\ returned[i].expiration = returned[j].expiration )
        => returned[i].inner <= returned[j].inner

\* C10: the entries pushed so far are exactly those still in the store plus
\* those returned, counted with multiplicity.
C10_Conservation ==
    enqueued = SeqBag(storage) (+) SeqBag(Entries(returned))

C10_Witness ==
    /\ NumEnqueued = MaxEnq
    /\ Len(storage) = 1
    /\ Len(returned) = 2
    /\ returned[1] # returned[2]
    /\ got[1] # <<>>
    /\ got[2] # <<>>

\* Entry e is still in the store, behind an entry enqueued after it.
Overtaken(e) ==
    /\ storage # <<>>
    /\ Head(storage) # e
    /\ \E i \in 2..Len(storage) : storage[i] = e

TimedItems == {e \in Items : e.expiration # <<>>}

\* C5: the single consumer, suspended without a wait bound on the empty
\* store, is woken once another thread has enqueued entry e, and its call
\* returns e (unless a later enqueue puts an entry in front of e first).
C5_LivenessAfterEmpty ==
    \A e \in Items :
        (pc[1] = "waiting" /\ wait[1] = <<>> /\ storage = <<e>>)
            ~> (got[1] = <<e>> \/ Overtaken(e))

C5_Witness ==
    /\ consumers = {1}
    /\ pc[1] = "idle"
    /\ got[1] # <<>>
    /\ got[1][1].expiration = <<1>>
    /\ NumEnqueued = 1
    /\ storage = <<>>

\* C6: the single consumer is suspended with a wait bound and the store's
\* head is due later (e10); a producer inserts e1, due earlier, and signals.
\* The signal wakes the consumer, and its call returns e1, not e10 (unless a
\* later enqueue puts an entry in front of e1 first).
C6_WakeAndRecheck ==
    /\ [][\A p \in Threads :
            (NotifyOne(p) /\ pc[1] = "waiting") => pc'[1] = "woken"]_vars
    /\ \A e1 \in TimedItems :
        \A e10 \in {e \in TimedItems : OptionLess(e1.expiration, e.expiration)} :
            ( /\ pc[1] = "waiting"
              /\ wait[1] # <<>>
              /\ storage = <<e1, e10>>
              /\ \E p \in Producers : pc[p] = "e_notify" )
            ~> (got[1] = <<e1>> \/ Overtaken(e1))

C6_Witness ==
    /\ consumers = {1}
    /\ pc[1] = "woken"
    /\ Len(storage) = 2
    /\ storage[1].expiration = <<0>>
    /\ storage[2].expiration = <<1>>
    /\ NumEnqueued = 2
    /\ now = 0

\* C7: the single consumer is suspended while the store's head e is due at a
\* time Some(t); with no further signal its own wait bound runs out and its
\* call returns e (unless a later enqueue puts an entry in front of e first).
C7_TimerExpiry ==
    \A e \in TimedItems :
        (pc[1] = "waiting" /\ storage # <<>> /\ Head(storage) = e)
            ~> (got[1] = <<e>> \/ Overtaken(e))

C7_Witness ==
    /\ consumers = {1}
    /\ pc[1] = "waiting"
    /\ wait[1] = <<0>>
    /\ permit = FALSE
    /\ storage # <<>>
    /\ Head(storage).expiration = <<1>>
    /\ now = MaxTime
    /\ \A p \in Producers : pc[p] = "idle"

\* Entry e is ready at the true current time.
ReadyNow(e) == e.expiration = <<>> \/ e.expiration[1] < now

\* C11: the head of the store has the earliest effective release time of all
\* entries in the store (None before every Some(t)), so that whenever some
\* entry of the store is ready, the head is.
C11_HeadEarliest ==
    \A i \in 1..Len(storage) :
        /\ ~OptionLess(storage[i].expiration, Head(storage).expiration)
        /\ ReadyNow(storage[i]) => ReadyNow(Head(storage))

C11_Witness ==
    /\ Len(storage) = 3
    /\ storage[1].expiration = <<>>
    /\ storage[2].expiration = <<0>>
    /\ storage[3].expiration = <<1>>
    /\ now = 1

Suspended(t) == pc[t] \in {"waiting", "woken"}

\* C12: no thread that is suspended in dequeue, or about to suspend, holds
\* the lock: whoever holds it is inside push or peek/pop and releases it with
\* its next step, so an enqueue gets the lock however many consumers wait.
C12_NoLockWhileSuspended ==
    /\ \A t \in Threads : (Suspended(t) \/ pc[t] = "d_wait") => lock # t
    /\ lock # 0 => pc[lock] \in {"e_locked", "d_locked"}

C12_Witness ==
    /\ pc[1] = "waiting"
    /\ pc[2] = "waiting"
    /\ pc[3] = "e_locked"
    /\ lock = 3

\* The effect of one notify_one: the oldest waiter is woken, or, with no
\* waiter, the permit is set.
OneSignal ==
    IF waiters # <<>>
    THEN /\ pc'[Head(waiters)] = "woken"
         /\ waiters' = Tail(waiters)
         /\ permit' = permit
    ELSE /\ permit' = TRUE
         /\ waiters' = waiters

DequeueMoves ==
    { <<"d_lock", "d_locked">>,
      <<"d_locked", "idle">>, <<"d_locked", "d_wait">>,
      <<"d_wait", "waiting">>, <<"d_wait", "d_lock">>,
      <<"waiting", "woken">>, <<"waiting", "d_lock">>, <<"waiting", "idle">>,
      <<"woken", "d_lock">>, <<"woken", "idle">> }

\* C14: a dequeue call moves only Checking -> Ready (return) or Checking ->
\* NotReady -> Waiting -> Checking.  Every wake, by signal or by the wait
\* bound, leads back to a check under the lock; the only step that returns an
\* entry is a check, and a call that ends while waiting was dropped by its
\* caller and returns nothing.
C14_DequeueStateMachine ==
    [][\A t \in Threads :
         (InDequeue(t) /\ pc'[t] # pc[t])
            => /\ <<pc[t], pc'[t]>> \in DequeueMoves
               /\ pc'[t] = "idle" =>
                    IF pc[t] = "d_locked"
                    THEN ReturnsHead(t)
                    ELSE got'[t] = <<>> /\ returned' = returned /\ storage' = storage
               /\ pc'[t] = "d_lock" => nowc'[t] = now]_vars

\* One consumer has been woken by a signal, the other's wait bound has run
\* out; neither has an entry yet.
C14_Witness ==
    /\ pc[1] = "woken"
    /\ pc[2] = "waiting"
    /\ wait[2] = <<0>>
    /\ storage # <<>>
    /\ returned = <<>>

Waiting == {t \in Threads : pc[t] = "waiting"}

\* C15: a notify_one issued by enqueue takes at most one suspended consumer
\* out of its wait, and exactly one when some consumer is suspended; every
\* other suspended consumer stays suspended, on the waiters list.
C15_OneWakePerSignal ==
    [][\A p \in Threads :
         NotifyOne(p) =>
            LET woke == {t \in Waiting : pc'[t] # "waiting"} IN
            /\ Cardinality(woke) <= 1
            /\ Waiting # {} => Cardinality(woke) = 1
            /\ \A t \in Waiting \ woke :
                  /\ wait'[t] = wait[t]
                  /\ \E i \in 1..Len(waiters') : waiters'[i] = t]_vars

C15_Witness ==
    /\ pc[1] = "woken"
    /\ pc[2] = "waiting"
    /\ waiters = <<2>>
    /\ permit = FALSE
    /\ pc[3] = "idle"
    /\ NumEnqueued = 1

\* C16: a check that finds nothing ready waits without bound exactly when
\* the store is empty, and otherwise with the bound t - now, t being the
\* head's release time: never negative, and positive when now < t.
C16_WaitBound ==
    [][\A t \in Threads :
         (pc[t] = "d_locked" /\ pc'[t] = "d_wait")
            => /\ wait'[t] = <<>> <=> storage = <<>>
               /\ storage # <<>> =>
                    /\ Head(storage).expiration # <<>>
                    /\ wait'[t] = <<Head(storage).expiration[1] - nowc[t]>>
                    /\ wait'[t][1] >= 0
                    /\ nowc[t] < Head(storage).expiration[1] => wait'[t][1] > 0]_vars

\* Consumer 2 checked the empty store, consumer 1 a head due one tick later.
C16_Witness ==
    /\ pc[1] = "d_wait"
    /\ wait[1] = <<1>>
    /\ pc[2] = "d_wait"
    /\ wait[2] = <<>>

\* A signal is on its way: stored as the permit, held by a woken consumer, or
\* about to be issued by an enqueue that has pushed its entry.
SignalPending ==
    \/ permit
    \/ \E t \in Threads : pc[t] \in {"e_notify", "woken"}

\* C17: with a single consumer, a signal issued between its check and its
\* wait is kept as the permit and ends the wait at once, with a new check; so
\* the consumer is never suspended without a wait bound while the store holds
\* an entry unless a signal is still to come, and it does not stay suspended
\* while the head of the store is ready.
C17_NoLostWakeupSingle ==
    /\ [][(pc[1] = "d_wait" /\ permit /\ pc'[1] # "d_wait")
            => (pc'[1] = "d_lock" /\ ~permit' /\ waiters' = waiters)]_vars
    /\ []((pc[1] = "waiting" /\ wait[1] = <<>> /\ storage # <<>>)
            => \E t \in Threads : pc[t] = "e_notify")
    /\ (pc[1] = "waiting" /\ HeadReady) ~> (pc[1] # "waiting")

\* The enqueue pushed a ready entry and signalled after the consumer's check
\* of the empty store and before its wait.
C17_Witness ==
    /\ consumers = {1}
    /\ pc[1] = "d_wait"
    /\ wait[1] = <<>>
    /\ permit
    /\ HeadReady
    /\ NumEnqueued = 1
    /\ \A t \in Producers : pc[t] = "idle"

\* The dequeue calls in progress, and the ready entries of the store.
InProgress == {t \in Threads : InDequeue(t)}
ReadyEntries == {i \in 1..Len(storage) : ReadyNow(storage[i])}

\* C18: with any number of consumers, a consumer is not left suspended
\* without a wait bound, no signal pending and every other thread idle, while
\* the store holds a ready entry for each dequeue call in progress: from
\* there, with no further enqueue, its call would never return.
C18_NoLostWakeup ==
    \A c \in Consumers :
        ~ ( /\ pc[c] = "waiting"
            /\ wait[c] = <<>>
            /\ ~SignalPending
            /\ \A t \in Threads \ {c} : pc[t] = "idle"
            /\ Cardinality(ReadyEntries) >= Cardinality(InProgress) )

\* C19: dropping a suspended dequeue call leaves the store, and the record
\* of what was enqueued and returned, as they were; a call that has not
\* returned holds no entry; and the store shrinks only in the step of a check
\* under the lock that hands the removed head to its caller and ends the call.
C19_CancelKeepsStore ==
    /\ [][\A t \in Consumers :
             (Suspended(t) /\ pc'[t] = "idle")
                => /\ storage' = storage
                   /\ enqueued' = enqueued
                   /\ returned' = returned
                   /\ got'[t] = <<>>]_vars
    /\ [](\A t \in Consumers : InDequeue(t) => got[t] = <<>>)
    /\ [][Len(storage') < Len(storage)
            => \E t \in Consumers :
                 /\ pc[t] = "d_locked"
                 /\ pc'[t] = "idle"
                 /\ got'[t] = <<Head(storage)>>
                 /\ storage' = Tail(storage)
                 /\ Len(returned') = Len(returned) + 1]_vars

\* The one entry ever enqueued is in the store and was never returned;
\* consumer 1 waits without bound and no signal is left, so consumer 2 took
\* the enqueue's signal, found the entry not yet due, and was dropped while
\* suspended.
C19_Witness ==
    /\ pc[1] = "waiting"
    /\ wait[1] = <<>>
    /\ pc[2] = "idle"
    /\ \A t \in Producers : pc[t] = "idle"
    /\ ~permit
    /\ NumEnqueued = 1
    /\ Len(storage) = 1
    /\ returned = <<>>

====
